---- MODULE Spec2Model ----
(***************************************************************************)
(* A model of scripts/generate_font.py: the command line entry point, the  *)
(* loading of the character map and of the adjustments document, the two   *)
(* glyph passes of generate_font, the dynamic kerning pass for 'I', the     *)
(* default space glyph and the final font.generate call.                    *)
(*                                                                         *)
(* Characters are one-character strings and stand for their code points    *)
(* (ord is injective on them), so the font is a function from characters   *)
(* to glyphs.  Outline coordinates are integers: the script rounds every   *)
(* outline (glyph.round()) before it reads a coordinate.  Python's int()   *)
(* truncates toward zero; TruncDiv does the same.                          *)
(***************************************************************************)
EXTENDS Integers, Sequences, FiniteSets, TLC

(***************************************************************************)
(* Bounds of the model.                                                    *)
(***************************************************************************)
\* Longest character map drawn by Init.
MaxMap == 2
\* Longest character map drawn for the command lines that reach the default
\* adjustments a second way (a fifth argument only, a file that is missing,
\* an empty document): their runs repeat those of the three-argument one.
MaxPlainMap == 1

(***************************************************************************)
(* Program constants.                                                      *)
(***************************************************************************)
\* TYPEFACE_METRICS['default_width']
default_width == 512
\* TYPEFACE_METRICS['default_spacing']
default_spacing == 50
\* TYPEFACE_METRICS['narrow_width'], 'medium_width', 'wide_width', in percent
narrow_width == 45
medium_width == 55
wide_width == 85
\* TYPEFACE_METRICS['optical_size']
default_optical_size == 12
\* TYPEFACE_METRICS['overshoot']
overshoot == 20
MIN_SIDE_BEARING == 5
MAX_SIDE_BEARING == 40
\* threshold of the dynamic kerning pass
threshold == 30

CHAR_WIDTH_CLASSES ==
    [narrow |-> {"i", "l", "I", "J", "f", "t", "1"},
     medium |-> {"a", "b", "c", "d", "e", "g", "h", "j", "k", "n", "o", "p", "q",
                 "r", "s", "u", "v", "x", "y", "z",
                 "A", "B", "C", "D", "E", "F", "G", "H", "K", "L", "N", "O", "P",
                 "Q", "R", "S", "T", "U", "V", "X", "Y", "Z",
                 "2", "3", "4", "5", "6", "7", "8", "9", "0"},
     wide   |-> {"m", "w", "M", "W"}]

ROUND_CHARS ==
    {"o", "O", "e", "E", "c", "C", "g", "G", "p", "P", "q", "Q", "b", "B", "d", "D"}

\* I_pairs = [chr(c) for c in range(65, 91)]
I_pairs ==
    {"A", "B", "C", "D", "E", "F", "G", "H", "I", "J", "K", "L", "M",
     "N", "O", "P", "Q", "R", "S", "T", "U", "V", "W", "X", "Y", "Z"}

(***************************************************************************)
(* Arithmetic.                                                             *)
(***************************************************************************)
Max(a, b) == IF a >= b THEN a ELSE b
Min(a, b) == IF a <= b THEN a ELSE b

\* int(a / b) for b > 0: Python's int() truncates toward zero.
TruncDiv(a, b) == IF a >= 0 THEN a \div b ELSE -((-a) \div b)

(***************************************************************************)
(* Inputs: the command line, the files on disk.                            *)
(***************************************************************************)
EmptyDoc == [k \in {} |-> 0]

\* dict.get(key, default)
Get(doc, key, default) == IF key \in DOMAIN doc THEN doc[key] ELSE default

\* The image paths a character map may name, and those that exist on disk.
ImagePaths == {"glyph.png", "gone.png"}
ExistingImages == {"glyph.png"}

\* The characters a character map may list: 'I' (narrow, special-cased by
\* the side-bearing heuristic, the left glyph of the dynamic kerning), 'O'
\* (medium, round), 'W' (wide) and the space, which is in no width class.
MapChars == {"I", "O", "W", " "}

Entries == [char : MapChars, path : ImagePaths]

CharMaps == UNION {[1..n -> Entries] : n \in 0..MaxMap}

\* The adjustments files on disk, by path.  Optical sizes are multiples of
\* 3 and offsets are integers, so that every factor 20*size_factor and
\* 40*size_factor and every vertical shift is an integer.
AdjustmentFiles ==
    [ empty_json |-> EmptyDoc,
      spacing_json |->
         [letterSpacing |-> 2, baselineOffset |-> 1, charWidth |-> 200,
          kerningPairs |-> (<<"I", "O">> :> -2) @@ (<<"O", "W">> :> 1),
          charPositions |-> [I |-> EmptyDoc]],
      positions_json |->
         [baselineOffset |-> -1, charWidth |-> 1, opticalSize |-> 24,
          charPositions |->
             [O |-> [y |-> 1], I |-> [x |-> 50], W |-> [x |-> -10, y |-> 0]]] ]

\* sys.argv: the script name, then the arguments.
Argvs ==
    { <<"generate_font.py">>,
      <<"generate_font.py", "charmap.json">>,
      <<"generate_font.py", "charmap.json", "out">>,
      <<"generate_font.py", "charmap.json", "out", "MyFont">>,
      <<"generate_font.py", "charmap.json", "out", "MyFont", "otf">>,
      <<"generate_font.py", "charmap.json", "out", "MyFont", "woff", "missing_json">> }
    \cup { <<"generate_font.py", "charmap.json", "out", "MyFont", "otf", f>> :
             f \in DOMAIN AdjustmentFiles }

\* The command lines whose run uses the default adjustments, the shortest
\* one apart.
PlainArgvs ==
    {a \in Argvs : Len(a) = 5 \/ (Len(a) = 6 /\ a[6] \in {"missing_json", "empty_json"})}

\* os.path.exists
os_path_exists(p) == p \in ExistingImages \cup DOMAIN AdjustmentFiles

(***************************************************************************)
(* Width classification and the first-pass width.                          *)
(***************************************************************************)
\* A plausible slip: the default class is 'narrow'.
get_character_width_default_narrow(char) ==
    IF char \in CHAR_WIDTH_CLASSES.narrow THEN "narrow"
    ELSE IF char \in CHAR_WIDTH_CLASSES.medium THEN "medium"
    ELSE IF char \in CHAR_WIDTH_CLASSES.wide THEN "wide"
    ELSE "narrow"

\* The dict is iterated in insertion order: narrow, medium, wide.
get_character_width(char) ==
    IF char \in CHAR_WIDTH_CLASSES.narrow THEN "narrow"
    ELSE IF char \in CHAR_WIDTH_CLASSES.medium THEN "medium"
    ELSE IF char \in CHAR_WIDTH_CLASSES.wide THEN "wide"
    ELSE "medium"

\* int(TYPEFACE_METRICS['default_width'] * TYPEFACE_METRICS['<class>_width'])
base_width(width_class) ==
    IF width_class = "narrow" THEN (default_width * narrow_width) \div 100
    ELSE IF width_class = "wide" THEN (default_width * wide_width) \div 100
    ELSE (default_width * medium_width) \div 100

\* int(base_width * char_width_scaling) + default_spacing, with
\* char_width_scaling = charWidth / 100.0
first_pass_width(char, charWidth) ==
    TruncDiv(base_width(get_character_width(char)) * charWidth, 100) + default_spacing

(***************************************************************************)
(* State.                                                                  *)
(***************************************************************************)
VARIABLES
    pc,               \* where the process is
    argv,             \* sys.argv
    charmap_json,     \* the content of the character map file
    exit_code,        \* -1 while running, else the status passed to sys.exit
    calls,            \* how many times generate_font was entered
    files_read,       \* the files opened for reading
    files_written,    \* the paths passed to font.generate, in order
    params,           \* generate_font's parameters
    adjustments,      \* the adjustments document in use
    settings,         \* letter_spacing, baseline_offset, ... read from it
    char_data,        \* the loaded character map
    font,             \* character -> glyph
    kern,             \* the entries of subtable kern-1: <<left, right>> -> value
    i,                \* the loop index of the running pass
    import_log,       \* the (index, path) pairs passed to importOutlines
    error_log,        \* the map indexes whose import was logged as an error
    kern_log          \* what the dynamic kerning pass did for each neighbor

vars == <<pc, argv, charmap_json, exit_code, calls, files_read, files_written,
          params, adjustments, settings, char_data, font, kern, i,
          import_log, error_log, kern_log>>

NoParams == [charmap_file |-> "", output_file |-> "", font_name |-> "",
             format |-> "", adjustments_file |-> "None"]

NoSettings == [letter_spacing |-> 0, baseline_offset |-> 0, charWidth |-> 0,
               kerning_pairs |-> EmptyDoc, char_positions |-> EmptyDoc,
               optical_size |-> 0]

Init ==
    /\ pc = "main"
    /\ argv \in Argvs
    /\ charmap_json \in CharMaps
    /\ argv \in PlainArgvs => Len(charmap_json) <= MaxPlainMap
    /\ exit_code = -1
    /\ calls = 0
    /\ files_read = {}
    /\ files_written = <<>>
    /\ params = NoParams
    /\ adjustments = EmptyDoc
    /\ settings = NoSettings
    /\ char_data = <<>>
    /\ font = EmptyDoc
    /\ kern = EmptyDoc
    /\ i = 0
    /\ import_log = {}
    /\ error_log = {}
    /\ kern_log = EmptyDoc

(***************************************************************************)
(* __main__: the argument check and the call of generate_font.             *)
(***************************************************************************)
\* A plausible slip: the check is len(sys.argv) < 5.
too_few_arguments_off_by_one(args) == Len(args) < 5

\* len(sys.argv) < 4
too_few_arguments(args) == Len(args) < 4

Main ==
    /\ pc = "main"
    /\ IF too_few_arguments(argv)
       THEN /\ exit_code' = 1
            /\ pc' = "exit"
            /\ UNCHANGED <<calls, params>>
       ELSE /\ params' = [charmap_file |-> argv[2],
                          output_file |-> argv[3],
                          font_name |-> argv[4],
                          format |-> IF Len(argv) > 4 THEN argv[5] ELSE "ttf",
                          adjustments_file |->
                              IF Len(argv) > 5 THEN argv[6] ELSE "None"]
            /\ calls' = calls + 1
            /\ pc' = "load"
            /\ UNCHANGED exit_code
    /\ UNCHANGED <<argv, charmap_json, files_read, files_written, adjustments,
                   settings, char_data, font, kern, i, import_log, error_log,
                   kern_log>>

(***************************************************************************)
(* generate_font, lines 214-283: load the inputs, create the font.         *)
(***************************************************************************)
\* adjustments_file and os.path.exists(adjustments_file)
adjustments_found(adjustments_file) ==
    adjustments_file /= "None" /\ os_path_exists(adjustments_file)

\* A plausible slip: the charWidth default is 0.
read_settings_zero_width(doc) ==
    [letter_spacing |-> Get(doc, "letterSpacing", 0),
     baseline_offset |-> Get(doc, "baselineOffset", 0),
     charWidth |-> Get(doc, "charWidth", 0),
     kerning_pairs |-> Get(doc, "kerningPairs", EmptyDoc),
     char_positions |-> Get(doc, "charPositions", EmptyDoc),
     optical_size |-> Get(doc, "opticalSize", default_optical_size)]

\* charWidth holds adjustments.get('charWidth', 100); char_width_scaling is
\* charWidth / 100.0 wherever it is used.
read_settings(doc) ==
    [letter_spacing |-> Get(doc, "letterSpacing", 0),
     baseline_offset |-> Get(doc, "baselineOffset", 0),
     charWidth |-> Get(doc, "charWidth", 100),
     kerning_pairs |-> Get(doc, "kerningPairs", EmptyDoc),
     char_positions |-> Get(doc, "charPositions", EmptyDoc),
     optical_size |-> Get(doc, "opticalSize", default_optical_size)]

\* 40 * size_factor with size_factor = optical_size / 12
position_factor(s) == (40 * s.optical_size) \div default_optical_size
baseline_offset_factor(s) == (40 * s.optical_size) \div default_optical_size

\* int(letter_spacing * letter_spacing_factor), the factor being 20 * size_factor
spacing_adjustment(s) ==
    TruncDiv(s.letter_spacing * 20 * s.optical_size, default_optical_size)

LoadInputs ==
    /\ pc = "load"
    /\ char_data' = charmap_json
    /\ LET found == adjustments_found(params.adjustments_file)
           doc == IF found /\ params.adjustments_file \in DOMAIN AdjustmentFiles
                  THEN AdjustmentFiles[params.adjustments_file]
                  ELSE EmptyDoc
       IN /\ adjustments' = doc
          /\ settings' = read_settings(doc)
          /\ files_read' = files_read \cup {params.charmap_file}
                             \cup (IF found THEN {params.adjustments_file} ELSE {})
    /\ font' = EmptyDoc
    /\ i' = 1
    /\ pc' = "pass1"
    /\ UNCHANGED <<argv, charmap_json, exit_code, calls, files_written, params,
                   kern, import_log, error_log, kern_log>>

(***************************************************************************)
(* Glyphs.                                                                 *)
(*   width       the advance width                                         *)
(*   contours    whether the foreground layer has contours                 *)
(*   min_x,max_x the horizontal extent of the outline points               *)
(*   bbox        whether glyph.boundingBox() is a non-empty value          *)
(*   dy          the sum of the vertical translations of the outline       *)
(* and, recorded for the properties,                                       *)
(*   shifts      the vertical transforms applied since the last clear      *)
(*   assigned    the side-bearing values assigned since the last clear     *)
(*   w_sb        the width left by the side-bearing step                   *)
(*   state       "created", "imported" or "failed"                         *)
(***************************************************************************)
NewGlyph == [width |-> 0, contours |-> FALSE, min_x |-> 0, max_x |-> 0,
             bbox |-> TRUE, dy |-> 0, shifts |-> <<>>, assigned |-> {},
             w_sb |-> 0,
             state |-> "created"]

\* A plausible slip: the test is inverted.
image_found_inverted(path) == ~os_path_exists(path)

image_found(path) == os_path_exists(path)

\* font.createChar(unicode_value) followed by the assignment of glyph.width;
\* createChar returns the glyph already at the code point, if any.
create_glyph(f, char, width) ==
    IF char \in DOMAIN f
    THEN [f EXCEPT ![char].width = width]
    ELSE f @@ (char :> [NewGlyph EXCEPT !.width = width])

FirstPass ==
    /\ pc = "pass1"
    /\ IF i <= Len(char_data)
       THEN /\ LET char == char_data[i].char
                   char_path == char_data[i].path
               IN font' = IF ~image_found(char_path)
                          THEN font
                          ELSE create_glyph(font, char,
                                   first_pass_width(char, settings.charWidth))
            /\ i' = i + 1
            /\ pc' = pc
       ELSE /\ i' = 1
            /\ pc' = "pass2"
            /\ font' = font
    /\ UNCHANGED <<argv, charmap_json, exit_code, calls, files_read,
                   files_written, params, adjustments, settings, char_data,
                   kern, import_log, error_log, kern_log>>

(***************************************************************************)
(* Glyph operations of the font library, as the script uses them.          *)
(***************************************************************************)
\* glyph.clear(): the outline is gone.
clear(g) ==
    [g EXCEPT !.contours = FALSE, !.min_x = 0, !.max_x = 0, !.bbox = TRUE,
              !.dy = 0, !.shifts = <<>>, !.assigned = {}]

\* What importOutlines, autoTrace, autoHint and round leave in the glyph:
\* nothing and no bounding box, nothing, a thin outline at the origin, a
\* wide outline away from it.
Outlines ==
    { [contours |-> FALSE, min_x |-> 0, max_x |-> 0, bbox |-> FALSE],
      [contours |-> FALSE, min_x |-> 0, max_x |-> 0, bbox |-> TRUE],
      [contours |-> TRUE, min_x |-> 0, max_x |-> 40, bbox |-> TRUE],
      [contours |-> TRUE, min_x |-> 50, max_x |-> 550, bbox |-> TRUE] }

\* A file that is not there traces to nothing.
outlines_of(path) ==
    IF os_path_exists(path) THEN Outlines ELSE {o \in Outlines : ~o.contours}

import_outline(g, o) ==
    [g EXCEPT !.contours = o.contours, !.min_x = o.min_x, !.max_x = o.max_x,
              !.bbox = o.bbox]

\* glyph.transform([1, 0, 0, 1, 0, dy])
transform(g, dy, why) ==
    [g EXCEPT !.dy = @ + dy, !.shifts = Append(@, <<why, dy>>)]

\* glyph.left_side_bearing: the left edge of the outline (0 without one).
left_side_bearing(g) == IF g.contours THEN g.min_x ELSE 0

\* glyph.left_side_bearing = v: the outline moves, the width stays.
set_left_side_bearing(g, v) ==
    IF g.contours
    THEN [g EXCEPT !.min_x = v, !.max_x = @ + (v - g.min_x),
                   !.assigned = @ \cup {<<"left", v>>}]
    ELSE [g EXCEPT !.assigned = @ \cup {<<"left", v>>}]

\* glyph.right_side_bearing = v: the width follows the right edge.
set_right_side_bearing(g, v) ==
    [g EXCEPT !.width = g.max_x + v, !.assigned = @ \cup {<<"right", v>>}]

(***************************************************************************)
(* The helpers of the second pass.                                         *)
(***************************************************************************)
apply_overshoot(g, char) ==
    IF char \in ROUND_CHARS /\ g.bbox
    THEN transform(g, overshoot, "overshoot")
    ELSE g

\* max(lo, min(int(width * pct / 100), hi))
clamp_ratio(width, pct, lo, hi) == Max(lo, Min((width * pct) \div 100, hi))

auto_balance_side_bearings(g, char) ==
    IF ~g.bbox THEN g
    ELSE
    LET width == g.max_x - g.min_x
        special(left, right) ==
            LET g1 == set_right_side_bearing(set_left_side_bearing(g, left), right)
                min_width == g.max_x + right + 10
            IN [g1 EXCEPT !.width = Max(Max(g1.width, min_width), 350)]
        plain(b) == set_right_side_bearing(set_left_side_bearing(g, b), b)
    IN IF char \in {"F", "I"}
       THEN special(clamp_ratio(width, 12, 20, 40), clamp_ratio(width, 10, 25, 50))
       ELSE IF char = "T"
       THEN special(clamp_ratio(width, 10, 20, 40), clamp_ratio(width, 10, 20, 40))
       ELSE IF char \in CHAR_WIDTH_CLASSES.narrow
       THEN plain(clamp_ratio(width, 2, MIN_SIDE_BEARING, MAX_SIDE_BEARING))
       ELSE IF char \in ROUND_CHARS
       THEN plain(clamp_ratio(width, 7, MIN_SIDE_BEARING, MAX_SIDE_BEARING))
       ELSE plain(clamp_ratio(width, 5, MIN_SIDE_BEARING, MAX_SIDE_BEARING))

\* raised: the outline analysis raised before it assigned anything, and
\* the except clause fell back to auto_balance_side_bearings.
dynamic_side_bearings(g, char, raised) ==
    IF raised \/ ~g.contours
    THEN auto_balance_side_bearings(g, char)
    ELSE
    LET extent == g.max_x - g.min_x
        left_bearing == IF char = "I" THEN 10 ELSE Min(Max(15, g.min_x), 60)
        right_bearing == IF char = "I" THEN 10 ELSE Min(30, 60)
        width == IF char = "I"
                 THEN Max(left_bearing + extent + right_bearing, 60)
                 ELSE left_bearing + extent + right_bearing
    IN set_right_side_bearing(
           set_left_side_bearing([g EXCEPT !.width = width], left_bearing),
           right_bearing)

\* int(glyph.width * char_width_scaling) + int(letter_spacing * letter_spacing_factor)
scaled_width(width, s) == TruncDiv(width * s.charWidth, 100) + spacing_adjustment(s)

\* A plausible slip: the global baseline offset is applied to every glyph,
\* with or without a per-character entry.
adjust_position_always_baseline(g, char, s) ==
    LET char_position == Get(s.char_positions, char, EmptyDoc)
        gb == IF s.baseline_offset /= 0
              THEN transform(g, s.baseline_offset * baseline_offset_factor(s),
                             "baseline")
              ELSE g
    IN IF char_position /= EmptyDoc
       THEN LET gy == IF "y" \in DOMAIN char_position
                      THEN transform(gb, char_position.y * position_factor(s),
                                     "char_y")
                      ELSE gb
            IN IF "x" \in DOMAIN char_position
               THEN LET gx == set_left_side_bearing(gy,
                                  left_side_bearing(gy)
                                    + TruncDiv(char_position.x * 4, 10))
                    IN [gx EXCEPT !.width = scaled_width(gx.width, s)]
               ELSE gy
       ELSE [gb EXCEPT !.width = scaled_width(gb.width, s)]

\* Lines 342-371: the per-character position, else the global baseline
\* offset and letter spacing.  An empty per-character entry is falsy.
adjust_position(g, char, s) ==
    LET char_position == Get(s.char_positions, char, EmptyDoc)
    IN IF char_position /= EmptyDoc
       THEN LET gy == IF "y" \in DOMAIN char_position
                      THEN transform(g, char_position.y * position_factor(s),
                                     "char_y")
                      ELSE g
            IN IF "x" \in DOMAIN char_position
               THEN LET gx == set_left_side_bearing(gy,
                                  left_side_bearing(gy)
                                    + TruncDiv(char_position.x * 4, 10))
                    IN [gx EXCEPT !.width = scaled_width(gx.width, s)]
               ELSE gy
       ELSE LET gb == IF s.baseline_offset /= 0
                      THEN transform(g,
                               s.baseline_offset * baseline_offset_factor(s),
                               "baseline")
                      ELSE g
            IN [gb EXCEPT !.width = scaled_width(gb.width, s)]

\* A plausible slip: the failed glyph is put back as it was before the try.
on_import_error_rollback(before, partial) == [before EXCEPT !.state = "failed"]

\* The except clause of the second pass only prints: the glyph keeps
\* whatever the try block did to it.
on_import_error(before, partial) == [partial EXCEPT !.state = "failed"]

\* Where the try block of the second pass may raise: importOutlines (after
\* clear), or the position step (before it changes the glyph).
FailPoints == {"none", "import", "position"}

\* The glyph the try block of lines 324-375 leaves.
second_pass_glyph(g, char, o, raised, fail) ==
    LET cleared == clear(g)
        sided == dynamic_side_bearings(
                     apply_overshoot(import_outline(cleared, o), char),
                     char, raised)
        measured == [sided EXCEPT !.w_sb = sided.width]
    IN IF fail = "import" THEN on_import_error(g, cleared)
       ELSE IF fail = "position" THEN on_import_error(g, measured)
       ELSE [adjust_position(measured, char, settings) EXCEPT !.state = "imported"]

\* unicode_value not in font
second_pass_skips(f, char, path) == char \notin DOMAIN f

SecondPass ==
    /\ pc = "pass2"
    /\ IF i <= Len(char_data)
       THEN /\ LET char == char_data[i].char
                   char_path == char_data[i].path
               IN IF second_pass_skips(font, char, char_path)
                  THEN UNCHANGED <<font, import_log, error_log>>
                  ELSE \E o \in outlines_of(char_path), raised \in BOOLEAN,
                          fail \in FailPoints :
                         /\ font' = [font EXCEPT ![char] =
                                second_pass_glyph(font[char], char, o, raised, fail)]
                         /\ import_log' = import_log \cup {<<i, char_path>>}
                         /\ error_log' = IF fail = "none" THEN error_log
                                         ELSE error_log \cup {i}
            /\ i' = i + 1
            /\ pc' = pc
       ELSE /\ i' = 0
            /\ pc' = "kerning"
            /\ UNCHANGED <<font, import_log, error_log>>
    /\ UNCHANGED <<argv, charmap_json, exit_code, calls, files_read,
                   files_written, params, adjustments, settings, char_data,
                   kern, kern_log>>

(***************************************************************************)
(* The dynamic kerning pass for 'I', lines 377-408.                        *)
(***************************************************************************)
\* distance = N_min_x + glyph_I.width - I_max_x
distance(f, neighbor) == f[neighbor].min_x + f["I"].width - f["I"].max_x

\* distance < threshold
needs_kerning(d) == d < threshold

\* A plausible slip: the operands are swapped.
kerning_value_swapped(d) == d - threshold

\* kerning_value = threshold - distance
kerning_value(d) == threshold - d

\* What the loop body does for one neighbor; failed is the neighbor whose
\* addPosSub call raised (the inner except clause prints and the loop goes
\* on).
kerning_step(f, neighbor, failed) ==
    IF ~("I" \in DOMAIN f /\ neighbor \in DOMAIN f) THEN "absent"
    ELSE IF ~f["I"].contours \/ ~f[neighbor].contours THEN "no_outline"
    ELSE IF ~needs_kerning(distance(f, neighbor)) THEN "far"
    ELSE IF neighbor = failed THEN "error"
    ELSE "added"

DynamicKerning ==
    /\ pc = "kerning"
    /\ \E failed \in {"none"} \cup
                       {n \in I_pairs : kerning_step(font, n, "none") = "added"} :
          /\ kern_log' = [n \in I_pairs |-> kerning_step(font, n, failed)]
          /\ kern' = [p \in {<<"I", n>> : n \in
                               {m \in I_pairs : kerning_step(font, m, failed) = "added"}}
                        |-> kerning_value(distance(font, p[2]))]
    /\ pc' = "space"
    /\ UNCHANGED <<argv, charmap_json, exit_code, calls, files_read,
                   files_written, params, adjustments, settings, char_data,
                   font, i, import_log, error_log>>

(***************************************************************************)
(* The default space glyph, lines 410-414, and font.generate, 431-437.     *)
(***************************************************************************)
\* font.createChar(32) with width int(default_width * 0.5)
space_glyph == [NewGlyph EXCEPT !.width = (default_width * 5) \div 10]

AddDefaultGlyphs ==
    /\ pc = "space"
    /\ font' = IF " " \notin DOMAIN font THEN font @@ (" " :> space_glyph) ELSE font
    /\ pc' = "generate"
    /\ UNCHANGED <<argv, charmap_json, exit_code, calls, files_read,
                   files_written, params, adjustments, settings, char_data,
                   kern, i, import_log, error_log, kern_log>>

\* output_path = f"{output_file}.{format}"
output_path(p) == <<p.output_file, p.format>>

Generate ==
    /\ pc = "generate"
    /\ files_written' = Append(files_written, output_path(params))
    /\ pc' = "done"
    /\ UNCHANGED <<argv, charmap_json, exit_code, calls, files_read, params,
                   adjustments, settings, char_data, font, kern, i, import_log,
                   error_log, kern_log>>

Next ==
    \/ Main
    \/ LoadInputs
    \/ FirstPass
    \/ SecondPass
    \/ DynamicKerning
    \/ AddDefaultGlyphs
    \/ Generate

Spec == Init /\ [][Next]_vars
(***************************************************************************)
(* Properties.                                                             *)
(***************************************************************************)
Indexes == 1..Len(char_data)
PassesDone == pc \in {"kerning", "space", "generate", "done"}
Imported(c) == c \in DOMAIN font /\ font[c].state = "imported"
\* The first pass creates a glyph for c.
Created(c) ==
    \E m \in Indexes : char_data[m].char = c /\ char_data[m].path \in ExistingImages

\* C1: once the two glyph passes are over, every entry of the character map
\* whose image exists on disk has a glyph for its character in the font,
\* whether or not its import raised an error and whatever else the map
\* holds.
C1_ExistingImagesHaveGlyphs ==
    PassesDone =>
        \A k \in Indexes :
            char_data[k].path \in ExistingImages => char_data[k].char \in DOMAIN font

\* The font is generated from a map with a missing image and an entry whose
\* import failed.
C1_Witness ==
    /\ pc = "done"
    /\ \E k, m \in Indexes :
          /\ char_data[k].path \in ExistingImages
          /\ k \in error_log
          /\ font[char_data[k].char].state = "failed"
          /\ char_data[m].path \notin ExistingImages

\* C2: every side-bearing value the script assigns to a glyph is within
\* [MIN_SIDE_BEARING, MAX_SIDE_BEARING].
C2_BearingsWithinBounds ==
    \A c \in DOMAIN font :
        \A a \in font[c].assigned :
            MIN_SIDE_BEARING <= a[2] /\ a[2] <= MAX_SIDE_BEARING

\* C3: an entry whose image file does not exist is skipped entirely: no
\* outline import is attempted with its path, and its character is absent
\* from the font handed to font.generate.
C3_MissingImageSkippedEntirely ==
    \A k \in Indexes :
        char_data[k].path \notin ExistingImages =>
            /\ \A e \in import_log : e[2] /= char_data[k].path
            /\ pc \in {"generate", "done"} => char_data[k].char \notin DOMAIN font

\* The glyphs the try block of the second pass can leave behind when it
\* raises: the cleared glyph, or the glyph with its outline, overshoot and
\* side bearings but no position adjustment.
PartialGlyphs(g, char, path) ==
    {[clear(g) EXCEPT !.state = "failed"]} \cup
    { [h EXCEPT !.w_sb = h.width, !.state = "failed"] :
        h \in { dynamic_side_bearings(
                    apply_overshoot(import_outline(clear(g), o), char), char, r) :
                o \in outlines_of(path), r \in BOOLEAN } }

C4_NotAborted ==
    /\ Len(argv) >= 4 => exit_code = -1
    /\ PassesDone =>
          \A k \in Indexes :
              Created(char_data[k].char) =>
                  <<k, char_data[k].path>> \in import_log
    /\ pc \in {"space", "generate", "done"} => DOMAIN kern_log = I_pairs
    /\ Len(files_written) = IF pc = "done" THEN 1 ELSE 0
    /\ \A k \in error_log : char_data[k].char \in DOMAIN font

C4_FailureStep ==
    error_log' /= error_log =>
        LET char == char_data[i].char
        IN /\ pc' = "pass2" /\ i' = i + 1
           /\ DOMAIN font' = DOMAIN font
           /\ \A d \in DOMAIN font \ {char} : font'[d] = font[d]
           /\ font'[char] \in PartialGlyphs(font[char], char, char_data[i].path)

\* C4: missing images and failed imports do not abort the run: every entry
\* whose character was created is still imported, the dynamic kerning pass
\* runs, font.generate is called exactly once, at the end; a failed glyph
\* stays in the font as the try block left it, and the failure changes no
\* other glyph.
C4_FailuresDoNotAbort == []C4_NotAborted /\ [][C4_FailureStep]_vars

\* The font is generated after the first entry's import failed and the
\* second entry was imported.
C4_Witness ==
    /\ pc = "done"
    /\ Len(char_data) = 2
    /\ 1 \in error_log
    /\ 2 \notin error_log
    /\ char_data[1].char /= char_data[2].char
    /\ font[char_data[1].char].state = "failed"
    /\ font[char_data[2].char].state = "imported"
ListedChars ==
    CHAR_WIDTH_CLASSES.narrow \cup CHAR_WIDTH_CLASSES.medium \cup CHAR_WIDTH_CLASSES.wide

\* The width classes are right: a listed character gets the one class that
\* lists it, any other character gets 'medium'.
ClassesRight ==
    /\ \A c \in ListedChars \cup MapChars :
          /\ \A k \in DOMAIN CHAR_WIDTH_CLASSES :
                c \in CHAR_WIDTH_CLASSES[k] => get_character_width(c) = k
          /\ c \notin ListedChars => get_character_width(c) = "medium"
    /\ \A k, m \in DOMAIN CHAR_WIDTH_CLASSES :
          k /= m => CHAR_WIDTH_CLASSES[k] \cap CHAR_WIDTH_CLASSES[m] = {}

\* The first pass is over and the second has not touched a glyph yet.
FirstPassDone == pc = "pass2" /\ i = 1

ClassRank(c) ==
    IF c \in CHAR_WIDTH_CLASSES.narrow THEN 1
    ELSE IF c \in CHAR_WIDTH_CLASSES.wide THEN 3
    ELSE 2

\* C5, as stated: the first-pass width is int(512*ratio*charWidth/100) + 50
\* with ratio 0.45, 0.55, 0.85, and narrow < medium < wide.
C5_AsStated ==
    /\ ClassesRight
    /\ FirstPassDone =>
          /\ \A c \in DOMAIN font :
                font[c].width =
                    TruncDiv(512 * (CASE ClassRank(c) = 1 -> 45
                                      [] ClassRank(c) = 2 -> 55
                                      [] ClassRank(c) = 3 -> 85)
                                 * settings.charWidth, 10000) + 50
          /\ \A c, d \in DOMAIN font :
                ClassRank(c) < ClassRank(d) => font[c].width < font[d].width

\* C5, amended: the first-pass width is int(base*charWidth/100) + 50 with
\* base = int(512*ratio) = 230, 281, 435, so that for a charWidth >= 0
\* narrow <= medium <= wide, strictly once charWidth >= 2.
C5_WidthClasses ==
    /\ ClassesRight
    /\ FirstPassDone =>
          /\ \A c \in DOMAIN font :
                font[c].width =
                    TruncDiv((CASE ClassRank(c) = 1 -> 230
                                [] ClassRank(c) = 2 -> 281
                                [] ClassRank(c) = 3 -> 435)
                                 * settings.charWidth, 100) + 50
          /\ \A c, d \in DOMAIN font :
                ClassRank(c) < ClassRank(d) =>
                    /\ settings.charWidth >= 0 => font[c].width <= font[d].width
                    /\ settings.charWidth >= 2 => font[c].width < font[d].width

\* After the first pass with charWidth 200: a medium glyph of width 612
\* beside a character of no class, and with charWidth 1 a narrow and a
\* medium glyph of the same width.
C5_Witness ==
    /\ FirstPassDone
    /\ \/ /\ settings.charWidth = 200
          /\ DOMAIN font = {"O", " "}
          /\ font["O"].width = 612 /\ font[" "].width = 612
       \/ /\ settings.charWidth = 1
          /\ DOMAIN font = {"I", "O"}
          /\ font["I"].width = font["O"].width

\* The adjustments file is given and exists.
FileUsed == params.adjustments_file \in DOMAIN AdjustmentFiles
FileContent == IF FileUsed THEN AdjustmentFiles[params.adjustments_file] ELSE EmptyDoc
Loaded == pc \notin {"main", "load", "exit"}

\* C6: each key of the adjustments document is optional on its own: an
\* absent key takes its default (0, 0, 100, none, none, 12), a present key
\* keeps its value; without a file, or with a file that does not exist, the
\* run is that of the empty document: no baseline shift, every width left
\* as the side-bearing step set it.
C6_Defaults ==
    Loaded =>
        /\ adjustments = FileContent
        /\ settings.letter_spacing =
              IF "letterSpacing" \in DOMAIN FileContent
              THEN FileContent.letterSpacing ELSE 0
        /\ settings.baseline_offset =
              IF "baselineOffset" \in DOMAIN FileContent
              THEN FileContent.baselineOffset ELSE 0
        /\ settings.charWidth =
              IF "charWidth" \in DOMAIN FileContent
              THEN FileContent.charWidth ELSE 100
        /\ settings.kerning_pairs =
              IF "kerningPairs" \in DOMAIN FileContent
              THEN FileContent.kerningPairs ELSE EmptyDoc
        /\ settings.char_positions =
              IF "charPositions" \in DOMAIN FileContent
              THEN FileContent.charPositions ELSE EmptyDoc
        /\ settings.optical_size =
              IF "opticalSize" \in DOMAIN FileContent
              THEN FileContent.opticalSize ELSE 12
        /\ (~FileUsed \/ FileContent = EmptyDoc) =>
              /\ settings = [letter_spacing |-> 0, baseline_offset |-> 0,
                             charWidth |-> 100, kerning_pairs |-> EmptyDoc,
                             char_positions |-> EmptyDoc, optical_size |-> 12]
              /\ \A c \in DOMAIN font :
                    /\ \A n \in 1..Len(font[c].shifts) :
                          font[c].shifts[n][1] = "overshoot"
                    /\ font[c].state = "imported" => font[c].width = font[c].w_sb

\* A font generated with a file that is named but missing, a glyph imported
\* with an outline.
C6_Witness ==
    /\ pc = "done"
    /\ params.adjustments_file = "missing_json"
    /\ \E c \in DOMAIN font : font[c].state = "imported" /\ font[c].contours

\* C7: with fewer than three arguments the process exits with 1, never
\* enters generate_font, reads and writes nothing; otherwise generate_font
\* is entered once, format defaults to 'ttf' and adjustments_file to none,
\* and the one file written is <output_file>.<format>.
C7_CommandLine ==
    /\ Len(argv) < 4 =>
          /\ pc \in {"main", "exit"}
          /\ calls = 0 /\ files_read = {} /\ files_written = <<>>
          /\ pc = "exit" => exit_code = 1
    /\ Len(argv) >= 4 =>
          /\ pc /= "exit" /\ exit_code = -1
          /\ pc /= "main" =>
                /\ calls = 1
                /\ params.charmap_file = argv[2]
                /\ params.output_file = argv[3]
                /\ params.font_name = argv[4]
                /\ params.format = IF Len(argv) = 4 THEN "ttf" ELSE argv[5]
                /\ params.adjustments_file = IF Len(argv) <= 5 THEN "None" ELSE argv[6]
          /\ files_written \in {<<>>, << <<argv[3], IF Len(argv) = 4 THEN "ttf" ELSE argv[5]>> >>}
          /\ pc = "done" => Len(files_written) = 1

\* A run with exactly three arguments that wrote out.ttf.
C7_Witness ==
    /\ Len(argv) = 4
    /\ pc = "done"
    /\ files_written = << <<"out", "ttf">> >>

\* 20 * size_factor
kerning_factor_of(s) == (20 * s.optical_size) \div 12

\* C8: every pair of kerningPairs whose two characters have glyphs has a
\* kerning entry in the generated font, derived from the supplied value.
C8_KerningPairsApplied ==
    pc = "done" =>
        \A p \in DOMAIN settings.kerning_pairs :
            (p[1] \in DOMAIN font /\ p[2] \in DOMAIN font) =>
                /\ p \in DOMAIN kern
                /\ kern[p] = settings.kerning_pairs[p] * kerning_factor_of(settings)

KerningDone == pc \in {"space", "generate", "done"}
HasOutline(c) == c \in DOMAIN font /\ font[c].contours

\* C9: for every neighbor N of A-Z such that 'I' and N are glyphs with
\* outlines, and whose step raised no error, the pair (I, N) has an entry
\* iff min_x(N) + width(I) - max_x(I) < 30, and its value is 30 minus that
\* distance, which is positive; without 'I', or without an outline on
\* either side, the pair has no entry; an error leaves the other pairs
\* their entries.
C9_DynamicKerning ==
    KerningDone =>
        /\ DOMAIN kern \subseteq {<<"I", n>> : n \in I_pairs}
        /\ \A n \in I_pairs :
              IF HasOutline("I") /\ HasOutline(n)
              THEN LET d == font[n].min_x + font["I"].width - font["I"].max_x
                   IN /\ kern_log[n] /= "error" => (<<"I", n>> \in DOMAIN kern <=> d < 30)
                      /\ kern_log[n] = "error" => <<"I", n>> \notin DOMAIN kern
                      /\ <<"I", n>> \in DOMAIN kern =>
                            kern[<<"I", n>>] = 30 - d /\ kern[<<"I", n>>] > 0
              ELSE <<"I", n>> \notin DOMAIN kern

\* The kerning pass gave one pair an entry, found another far enough apart
\* and met an error on a third.
C9_Witness ==
    /\ pc = "done"
    /\ \E a, b \in I_pairs :
          /\ a /= b
          /\ kern_log[a] = "added" /\ <<"I", a>> \in DOMAIN kern
          /\ kern_log[b] \in {"far", "error"}
          /\ HasOutline(b)

ShiftTags(g) == {g.shifts[n][1] : n \in 1..Len(g.shifts)}
ShiftBy(g, why) == {g.shifts[n][2] : n \in {m \in 1..Len(g.shifts) : g.shifts[m][1] = why}}
PositionEntry(c) == Get(Get(adjustments, "charPositions", EmptyDoc), c, EmptyDoc)
SizeTimes40 == (40 * Get(adjustments, "opticalSize", 12)) \div 12

\* C10: an imported glyph gets at most one of the two adjustment shifts: the
\* per-character one iff its charPositions entry is non-empty and has 'y',
\* the global one iff it has no or an empty entry and baselineOffset is not
\* 0; the only other shift is the overshoot of 20, applied exactly to the
\* round characters with a bounding box.
C10_VerticalShifts ==
    \A c \in DOMAIN font :
        font[c].state = "imported" =>
            LET g == font[c]
                entry == PositionEntry(c)
                offset == Get(adjustments, "baselineOffset", 0)
            IN /\ ShiftTags(g) \subseteq {"overshoot", "char_y", "baseline"}
               /\ Len(g.shifts) = Cardinality(ShiftTags(g))
               /\ ~({"char_y", "baseline"} \subseteq ShiftTags(g))
               /\ "char_y" \in ShiftTags(g) <=> (entry /= EmptyDoc /\ "y" \in DOMAIN entry)
               /\ "char_y" \in ShiftTags(g) => ShiftBy(g, "char_y") = {entry.y * SizeTimes40}
               /\ "baseline" \in ShiftTags(g) <=> (entry = EmptyDoc /\ offset /= 0)
               /\ "baseline" \in ShiftTags(g) => ShiftBy(g, "baseline") = {offset * SizeTimes40}
               /\ "overshoot" \in ShiftTags(g) <=> (c \in ROUND_CHARS /\ g.bbox)
               /\ "overshoot" \in ShiftTags(g) => ShiftBy(g, "overshoot") = {20}
               /\ g.dy = (IF "overshoot" \in ShiftTags(g) THEN 20 ELSE 0)
                         + (IF "char_y" \in ShiftTags(g) THEN entry.y * SizeTimes40 ELSE 0)
                         + (IF "baseline" \in ShiftTags(g) THEN offset * SizeTimes40 ELSE 0)

\* With a non-zero baselineOffset: an imported glyph whose entry has no 'y'
\* and gets no shift, beside a round glyph shifted by its own 'y' and by the
\* overshoot.
C10_Witness ==
    /\ pc = "done"
    /\ Get(adjustments, "baselineOffset", 0) /= 0
    /\ \E c, d \in DOMAIN font :
          /\ font[c].state = "imported" /\ font[d].state = "imported"
          /\ PositionEntry(c) /= EmptyDoc /\ "y" \notin DOMAIN PositionEntry(c)
          /\ font[c].shifts = <<>>
          /\ font[d].shifts = << <<"overshoot", 20>>, <<"char_y", 80>> >>

\* C11: the final advance width of every imported glyph, with or without a
\* charPositions entry, is int(w * charWidth/100) + int(letterSpacing * 20
\* * size_factor), w being the width the side-bearing step left: the global
\* scaling and spacing are applied to it once.
C11_SpacingAndScalingApplied ==
    \A c \in DOMAIN font :
        font[c].state = "imported" =>
            font[c].width =
                TruncDiv(font[c].w_sb * Get(adjustments, "charWidth", 100), 100)
                + TruncDiv(Get(adjustments, "letterSpacing", 0) * 20
                             * Get(adjustments, "opticalSize", 12), 12)
====
